---- MODULE Spec2Model ----
(***************************************************************************)
(* A model of src/summary.py: the DiffAnalyzer class as its clients use it *)
(* (main, lines 325-326): construct an analyzer from a keyword list, then  *)
(* call analyze on a diff; and post_github_comment as it is called with   *)
(* the bodies format_summary returns (lines 211-270, 290-304).             *)
(*                                                                         *)
(* Strings are TLA+ strings; a character is a string of length one.  A     *)
(* diff is the sequence of lines diff.splitlines() yields.                 *)
(***************************************************************************)
EXTENDS Integers, Sequences, FiniteSets, TLC

VARIABLES
    sorry_keywords,   \* per client: the keyword list passed to DiffAnalyzer(...)
    diff,             \* per client: the lines of the diff it will pass to analyze
    pc,               \* per client: "absent", "new", "raised", "constructed"
    exc,              \* per client: the exception that left the constructor
    self,             \* per client: the attributes assigned on its DiffAnalyzer
    result,           \* per client: what analyze returned to it
    again,            \* per client: what a second analyze(diff) returned to it
    comments,         \* the pull request's issue comments, in listing order
    calls,            \* what each post_github_comment call so far has done
    now               \* the clock of datetime.utcnow(), in seconds

analyzerVars == <<sorry_keywords, diff, pc, exc, self, result, again>>

commentVars == <<comments, calls, now>>

vars == <<sorry_keywords, diff, pc, exc, self, result, again, comments, calls, now>>

(***************************************************************************)
(* Python string operations used by the constructor.                       *)
(***************************************************************************)
CharAt(s, i) == SubSeq(s, i, i)

StartsWith(s, prefix) ==
    /\ Len(s) >= Len(prefix)
    /\ SubSeq(s, 1, Len(prefix)) = prefix

EndsWith(s, suffix) ==
    /\ Len(s) >= Len(suffix)
    /\ SubSeq(s, Len(s) - Len(suffix) + 1, Len(s)) = suffix

\* re.escape: the characters it puts a backslash before (the control
\* characters among them left out: no keyword of the model holds one)
ReSpecialChars ==
    {"(", ")", "[", "]", "{", "}", "?", "*", "+", "-", "|", "^", "$",
     "\\", ".", "&", "~", "#", " "}

RECURSIVE ReEscapeFrom(_, _)
ReEscapeFrom(k, p) ==
    IF p > Len(k) THEN ""
    ELSE (IF CharAt(k, p) \in ReSpecialChars THEN "\\" ELSE "")
             \o CharAt(k, p) \o ReEscapeFrom(k, p + 1)

ReEscape(k) == ReEscapeFrom(k, 1)

\* sep.join(parts)
RECURSIVE Join(_, _)
Join(sep, parts) ==
    IF parts = <<>> THEN ""
    ELSE IF Len(parts) = 1 THEN parts[1]
    ELSE parts[1] \o sep \o Join(sep, Tail(parts))

NoException == [type |-> "none", msg |-> ""]

Raise(type, msg) == [exc |-> [type |-> type, msg |-> msg], value |-> ""]

Return(value) == [exc |-> NoException, value |-> value]

(***************************************************************************)
(* template.format(args) for a template that uses only automatically       *)
(* numbered                                                                *)
(* replacement fields, as CPython's MarkupIterator parses it: literal text *)
(* up to a brace, "{{" and "}}" as escaped braces, a field name up to "}"  *)
(* or ":", and after ":" a format spec up to the brace that closes the     *)
(* field.  Applying a format spec to the argument, and replacement fields  *)
(* nested in a format spec, are not modelled: the one template of the      *)
(* program has neither.                                                    *)
(***************************************************************************)
RECURSIVE FormatText(_, _, _, _, _), FormatFieldName(_, _, _, _, _), FormatSpec(_, _, _, _, _, _)

\* a replacement field is complete: it takes argument number n (from 0)
FormatField(s, p, args, n, out) ==
    IF n >= Len(args)
    THEN Raise("IndexError", "Replacement index " \o ToString(n)
                                 \o " out of range for positional args tuple")
    ELSE FormatText(s, p, args, n + 1, out \o args[n + 1])

\* literal text from position p; out is the text produced so far
FormatText(s, p, args, n, out) ==
    IF p > Len(s) THEN Return(out)
    ELSE IF CharAt(s, p) = "{" THEN
        IF p < Len(s) /\ CharAt(s, p + 1) = "{"
        THEN FormatText(s, p + 2, args, n, out \o "{")
        ELSE IF p = Len(s)
        THEN Raise("ValueError", "Single '{' encountered in format string")
        ELSE FormatFieldName(s, p + 1, args, n, out)
    ELSE IF CharAt(s, p) = "}" THEN
        IF p < Len(s) /\ CharAt(s, p + 1) = "}"
        THEN FormatText(s, p + 2, args, n, out \o "}")
        ELSE Raise("ValueError", "Single '}' encountered in format string")
    ELSE FormatText(s, p + 1, args, n, out \o CharAt(s, p))

\* inside a replacement field, before any ":"
FormatFieldName(s, p, args, n, out) ==
    IF p > Len(s)
    THEN Raise("ValueError", "expected '}' before end of string")
    ELSE IF CharAt(s, p) = "{"
    THEN Raise("ValueError", "unexpected '{' in field name")
    ELSE IF CharAt(s, p) = "}" THEN FormatField(s, p + 1, args, n, out)
    ELSE IF CharAt(s, p) = ":" THEN FormatSpec(s, p + 1, 1, args, n, out)
    ELSE FormatFieldName(s, p + 1, args, n, out)

\* inside the format spec of a field; depth counts the open braces
FormatSpec(s, p, depth, args, n, out) ==
    IF p > Len(s)
    THEN Raise("ValueError", "unmatched '{' in format spec")
    ELSE IF CharAt(s, p) = "{" THEN FormatSpec(s, p + 1, depth + 1, args, n, out)
    ELSE IF CharAt(s, p) = "}" THEN
        IF depth > 1 THEN FormatSpec(s, p + 1, depth - 1, args, n, out)
        ELSE FormatField(s, p + 1, args, n, out)
    ELSE FormatSpec(s, p + 1, depth, args, n, out)

StrFormat(template, args) == FormatText(template, 1, args, 0, "")

(***************************************************************************)
(* re.compile(pattern): the checks of the regular-expression parser that   *)
(* the patterns of the constructor can fail.  prev is what precedes the    *)
(* position in the current branch: "none" (nothing to repeat), "item" or   *)
(* "repeat" (an item that already carries a quantifier); depth counts the  *)
(* open groups.                                                            *)
(***************************************************************************)
RECURSIVE ReParse(_, _, _, _), ReParseSet(_, _, _, _)

ReParse(s, p, prev, depth) ==
    IF p > Len(s) THEN
        IF depth > 0
        THEN Raise("re.error", "missing ), unterminated subpattern")
        ELSE Return(s)
    ELSE IF CharAt(s, p) = "\\" THEN
        IF p = Len(s) THEN Raise("re.error", "bad escape (end of pattern)")
        ELSE ReParse(s, p + 2, "item", depth)
    ELSE IF CharAt(s, p) = "[" THEN
        \* a "^" and a first "]" belong to the set
        LET q == IF p < Len(s) /\ CharAt(s, p + 1) = "^" THEN p + 2 ELSE p + 1
        IN  ReParseSet(s, IF q <= Len(s) /\ CharAt(s, q) = "]" THEN q + 1 ELSE q,
                       prev, depth)
    ELSE IF CharAt(s, p) = "(" THEN
        IF p + 2 <= Len(s) /\ SubSeq(s, p + 1, p + 2) = "?:"
        THEN ReParse(s, p + 3, "none", depth + 1)
        ELSE ReParse(s, p + 1, "none", depth + 1)
    ELSE IF CharAt(s, p) = ")" THEN
        IF depth = 0 THEN Raise("re.error", "unbalanced parenthesis")
        ELSE ReParse(s, p + 1, "item", depth - 1)
    ELSE IF CharAt(s, p) \in {"|", "^", "$"} THEN ReParse(s, p + 1, "none", depth)
    ELSE IF CharAt(s, p) \in {"*", "+", "?"} THEN
        IF prev = "none" THEN Raise("re.error", "nothing to repeat")
        ELSE IF prev = "repeat" THEN Raise("re.error", "multiple repeat")
        \* a "?" (lazy) or "+" (possessive) right after belongs to the quantifier
        ELSE IF p < Len(s) /\ CharAt(s, p + 1) \in {"?", "+"}
        THEN ReParse(s, p + 2, "repeat", depth)
        ELSE ReParse(s, p + 1, "repeat", depth)
    ELSE ReParse(s, p + 1, "item", depth)

\* inside a character set, up to its closing "]"
ReParseSet(s, p, prev, depth) ==
    IF p > Len(s) THEN Raise("re.error", "unterminated character set")
    ELSE IF CharAt(s, p) = "\\" THEN ReParseSet(s, p + 2, prev, depth)
    ELSE IF CharAt(s, p) = "]" THEN ReParse(s, p + 1, "item", depth)
    ELSE ReParseSet(s, p + 1, prev, depth)

ReCompile(pattern) == ReParse(pattern, 1, "none", 0)

(***************************************************************************)
(* The constants of the constructor.                                       *)
(***************************************************************************)
\* line 95
FilePathPattern == "diff --git a/(.+) b/(.+)"

\* line 96
HunkHeaderPattern == "@@ -(\\d+),?(\\d*) \\+(\\d+),?(\\d*) @@"

\* line 99: the raw string that .format is called on
NameExtractTemplate == ".*??(?:{})\\s+([^\\s\\(\\{:]+)"

\* main, line 315: the default of INPUT_LEAN_KEYWORDS, split at the commas
DefaultKeywords ==
    <<"def", "abbrev", "example", "theorem", "opaque", "lemma", "instance">>

\* line 9: the most characters of a diff that main has summarised
MAX_DIFF_TOKENS == 1500000

(***************************************************************************)
(* The inputs the clients draw from.                                       *)
(***************************************************************************)
MaxKeywords == 2

KeywordPool == {"theorem", "lemma", "my-kw"}

KeywordLists ==
    {DefaultKeywords} \cup UNION {[1..n -> KeywordPool] : n \in 0..MaxKeywords}

\* Scenario A of the spec: one file, three lines added, one removed
ScenarioA ==
    << "diff --git a/Foo.lean b/Foo.lean",
       "index 83db48f..bf2a1c9 100644",
       "--- a/Foo.lean",
       "+++ b/Foo.lean",
       "@@ -1,3 +1,5 @@",
       " import Mathlib",
       "-def x := 1",
       "+def x := 2",
       "+theorem bar : True := sorry",
       "+",
       " end Foo" >>

\* Scenario B of the spec: a rename with no hunk
ScenarioB ==
    << "diff --git a/Old.lean b/New.lean",
       "similarity index 100%",
       "rename from Old.lean",
       "rename to New.lean" >>

\* Scenario C of the spec: a lemma moves from old line 10 to new line 25
ScenarioC ==
    << "diff --git a/A.lean b/A.lean",
       "--- a/A.lean",
       "+++ b/A.lean",
       "@@ -10,1 +9,0 @@",
       "-lemma foo : P := sorry",
       "@@ -25,0 +25,1 @@",
       "+lemma foo : P := sorry",
       "diff --git a/B.lean b/B.lean",
       "--- a/B.lean",
       "+++ b/B.lean",
       "@@ -1,1 +1,1 @@",
       "-def y := 1",
       "+def y := 2" >>

\* the line of the spec's comment-suppression property, added to A.lean
CommentLine == "+  theorem foo : P := by sorry -- sorry still needed"

CommentDiff ==
    << "diff --git a/A.lean b/A.lean",
       "--- a/A.lean",
       "+++ b/A.lean",
       "@@ -4,0 +5,1 @@",
       CommentLine >>

\* a renamed file whose declaration keeps its marker
RenameDiff ==
    << "diff --git a/Old.lean b/New.lean",
       "similarity index 90%",
       "rename from Old.lean",
       "rename to New.lean",
       "--- a/Old.lean",
       "+++ b/New.lean",
       "@@ -3,1 +5,1 @@",
       "-theorem foo : P := sorry",
       "+theorem foo : P := sorry" >>

\* a file that is not a .lean file, then a .lean file
NonLeanDiff ==
    << "diff --git a/README.md b/README.md",
       "--- a/README.md",
       "+++ b/README.md",
       "@@ -1,1 +1,2 @@",
       "-old text",
       "+new text",
       "+more text",
       "diff --git a/A.lean b/A.lean",
       "--- a/A.lean",
       "+++ b/A.lean",
       "@@ -7,0 +8,1 @@",
       "+def z := 3" >>

\* changed lines of a .lean file whose own text begins with "--" and "++"
DashDiff ==
    << "diff --git a/A.lean b/A.lean",
       "--- a/A.lean",
       "+++ b/A.lean",
       "@@ -2,2 +2,2 @@",
       "--- an old comment",
       "-def a := 1",
       "+++ [1]",
       "+def a := 2" >>

\* a marker on the third changed line of a hunk, after a context line
HunkDiff ==
    << "diff --git a/A.lean b/A.lean",
       "--- a/A.lean",
       "+++ b/A.lean",
       "@@ -5,3 +7,4 @@",
       " namespace N",
       "-def a := 1",
       "+def a := 2",
       "-theorem foo : P := sorry",
       "+theorem foo' : P := sorry",
       "+theorem foo : P := sorry",
       " end N" >>

Scenarios ==
    {ScenarioA, ScenarioB, ScenarioC, CommentDiff, RenameDiff, NonLeanDiff,
     DashDiff, HunkDiff}

\* the header lines of a section of A.lean
LeanHeader ==
    << "diff --git a/A.lean b/A.lean",
       "--- a/A.lean",
       "+++ b/A.lean" >>

\* a declaration line that names nothing, after a named declaration
NoNameDiff ==
    LeanHeader \o
    << "@@ -1,0 +1,3 @@",
       "+theorem foo : P := by",
       "+  exact h",
       "+instance : Inhabited Nat := sorry" >>

\* a declaration in one hunk, a marker alone in the next
BoundaryDiff ==
    LeanHeader \o
    << "@@ -1,0 +1,1 @@",
       "+theorem foo : P := by",
       "@@ -8,0 +9,1 @@",
       "+  sorry" >>

\* a marker after a comment opener, then a marker with no comment
TwoMarkersDiff ==
    LeanHeader \o
    << "@@ -1,0 +1,2 @@",
       "+theorem foo : P := by -- sorry later",
       "+theorem bar : P := sorry" >>

\* a marker on a context line
ContextDiff ==
    LeanHeader \o
    << "@@ -3,1 +3,1 @@",
       " theorem foo : P := sorry" >>

\* foo's marker removed once and added twice
LastWinsDiff ==
    LeanHeader \o
    << "@@ -1,2 +1,3 @@",
       "-theorem foo : P := sorry",
       "+theorem foo : P := sorry",
       " x",
       "+theorem foo : Q := sorry" >>

\* a commented-out declaration between a declaration and its marker
CommentedDeclDiff ==
    LeanHeader \o
    << "@@ -1,0 +1,3 @@",
       "+theorem foo : P := by",
       "+-- theorem bar : Q",
       "+  sorry" >>

\* a section of a .lean file, then a hunk of a file that is not one
OtherFileLastDiff ==
    << "diff --git a/A.lean b/A.lean",
       "@@ -3,1 +3,1 @@",
       " x",
       "diff --git a/R.md b/R.md",
       "@@ -40,1 +50,1 @@",
       "+theorem foo : P := sorry" >>

LineScenarios ==
    {NoNameDiff, BoundaryDiff, TwoMarkersDiff, ContextDiff, LastWinsDiff,
     CommentedDeclDiff, OtherFileLastDiff}

MaxDiffLines == 2

LinePool ==
    { "diff --git a/A.lean b/A.lean",
      "diff --git a/README.md b/README.md",
      "@@ -3,1 +5,1 @@",
      "+theorem foo : P := sorry",
      "-theorem foo : P := sorry",
      " context",
      "not a diff line" }

Diffs ==
    Scenarios \cup LineScenarios
        \cup UNION {[1..n -> LinePool] : n \in 0..MaxDiffLines}

(***************************************************************************)
(* The clients.  Each owns one DiffAnalyzer; client 2 exists only in the   *)
(* specification of two concurrent analyses.                               *)
(***************************************************************************)
Clients == {1, 2}

\* an object before its __init__ has assigned any attribute
NoAttributes == <<>>

\* a Python dict with no entries
EmptyDict == <<>>

\* the client's variables that line 326 binds, before analyze has returned
NoResult == [returned |-> FALSE]

\* the inputs of the clients that exist; the others hold nothing
InputsOf(active, values) ==
    {[i \in Clients |-> IF i \in active THEN f[i] ELSE <<>>] :
        f \in [active -> values]}

InitOf(active, keywordLists, diffs) ==
    /\ sorry_keywords \in InputsOf(active, keywordLists)
    /\ diff \in InputsOf(active, diffs)
    /\ pc = [i \in Clients |-> IF i \in active THEN "new" ELSE "absent"]
    /\ exc = [i \in Clients |-> NoException]
    /\ self = [i \in Clients |-> NoAttributes]
    /\ result = [i \in Clients |-> NoResult]
    /\ again = [i \in Clients |-> NoResult]
    /\ comments = <<>>
    /\ calls = <<>>
    /\ now = 0

Init == InitOf({1}, KeywordLists, Diffs)

InitTwo == InitOf({1, 2}, KeywordLists, Scenarios)

(***************************************************************************)
(* DiffAnalyzer.__init__ (lines 78-100), called by client i.  Lines 79-93  *)
(* assign the attributes, lines 95 and 96 compile the two header patterns, *)
(* line 97 joins the escaped keywords, and lines 98-100 format the name    *)
(* pattern and compile what the format returned.  An exception of any of   *)
(* these leaves the constructor and reaches the client, which then has no  *)
(* analyzer to call analyze on.                                            *)
(***************************************************************************)
\* lines 79-93
AssignedAttributes(keywords) ==
    [ files_changed |-> {},
      lines_added |-> 0,
      lines_removed |-> 0,
      added_sorries |-> <<>>,
      removed_sorries |-> <<>>,
      affected_sorries |-> <<>>,
      _sorry_keywords |-> keywords,
      _current_file |-> "",
      _old_line_num |-> 0,
      _new_line_num |-> 0,
      _current_decl_header |-> "",
      _current_decl_name |-> "",
      _raw_added |-> EmptyDict,
      _raw_removed |-> EmptyDict ]

\* line 97
KeywordsRegexPart(keywords) ==
    Join("|", [k \in 1..Len(keywords) |-> ReEscape(keywords[k])])

\* lines 98-100: the argument of re.compile is evaluated first
NameExtractRegex(keywords) ==
    LET formatted == StrFormat(NameExtractTemplate, <<KeywordsRegexPart(keywords)>>)
    IN  IF formatted.exc # NoException THEN formatted
        ELSE ReCompile(formatted.value)

\* the first exception of lines 95-100, or NoException
ConstructorException(keywords) ==
    IF ReCompile(FilePathPattern).exc # NoException
    THEN ReCompile(FilePathPattern).exc
    ELSE IF ReCompile(HunkHeaderPattern).exc # NoException
    THEN ReCompile(HunkHeaderPattern).exc
    ELSE NameExtractRegex(keywords).exc

__init__(i) ==
    /\ pc[i] = "new"
    /\ self' = [self EXCEPT ![i] = AssignedAttributes(sorry_keywords[i])]
    /\ exc' = [exc EXCEPT ![i] = ConstructorException(sorry_keywords[i])]
    /\ pc' = [pc EXCEPT ![i] =
                IF ConstructorException(sorry_keywords[i]) = NoException
                THEN "constructed" ELSE "raised"]
    /\ UNCHANGED <<sorry_keywords, diff, result, again>>
    /\ UNCHANGED commentVars

(***************************************************************************)
(* analyze (lines 102-123) is a method of a constructed analyzer.  The     *)
(* format of line 99 raises for every keyword list (the "{" of "\{" in the   *)
(* template opens a replacement field that is never closed), so no client  *)
(* ever holds an analyzer: the constructor is the only step of a client.   *)
(***************************************************************************)
Next == \E i \in Clients : __init__(i)

Spec == Init /\ [][Next]_vars

SpecTwo == InitTwo /\ [][Next]_vars

\* every client's constructor call ends in ValueError, whatever its inputs
ConstructorAlwaysRaises ==
    \A i \in Clients : pc[i] \notin {"new", "absent"} =>
        /\ pc[i] = "raised"
        /\ exc[i] = [type |-> "ValueError", msg |-> "unmatched '{' in format spec"]
        /\ result[i] = NoResult

(***************************************************************************)
(* What the claims speak of.                                               *)
(***************************************************************************)
Range(f) == {f[x] : x \in DOMAIN f}

\* client i's statements of lines 325-326 are over
Ended(i) == pc[i] = "raised" \/ result[i].returned

\* the backquote of lines 205 and 208, which no TLA+ string can hold
Backquote == "'"

\* lines 205 and 208: how an added or removed occurrence is reported
Descriptor(info) ==
    Backquote \o info.header \o Backquote \o " in "
        \o Backquote \o info.file \o Backquote

\* the places of a diff: file headers, hunk headers, the lines of a hunk
IsFileHeader(line) == StartsWith(line, "diff --git a/")

IsHunkHeader(line) == StartsWith(line, "@@ -")

InHunk(d, k) ==
    /\ ~IsFileHeader(d[k])
    /\ ~IsHunkHeader(d[k])
    /\ \E j \in 1..(k - 1) :
          /\ IsHunkHeader(d[j])
          /\ \A m \in j..k : ~IsFileHeader(d[m])

\* the header of the file section that line k lies in
SectionHeader(d, k) ==
    LET headers == {j \in 1..k : IsFileHeader(d[j])}
    IN  d[CHOOSE j \in headers : \A m \in headers : m <= j]

InLeanSection(d, k) == EndsWith(SectionHeader(d, k), ".lean")

\* the lines of the hunks of d that start with prefix ("+" or "-")
ChangedLines(d, prefix) ==
    {k \in 1..Len(d) : InHunk(d, k) /\ StartsWith(d[k], prefix)}

\* C1: for any diff and keyword list analyze returns, and after it every
\* stable ID of _raw_added or _raw_removed is reported in exactly one of the
\* three lists: affected iff it is a key of both maps, added iff only of
\* _raw_added, removed iff only of _raw_removed.
C1_Partition ==
    \A i \in Clients : Ended(i) =>
        /\ result[i].returned
        /\ LET added_ids == DOMAIN self[i]._raw_added
               removed_ids == DOMAIN self[i]._raw_removed
               affected == {e.id : e \in Range(result[i].affected_sorries)}
               added == {sid \in added_ids :
                            Descriptor(self[i]._raw_added[sid])
                                \in Range(result[i].added_sorries)}
               removed == {sid \in removed_ids :
                            Descriptor(self[i]._raw_removed[sid])
                                \in Range(result[i].removed_sorries)}
           IN  /\ affected = added_ids \cap removed_ids
               /\ added = added_ids \ removed_ids
               /\ removed = removed_ids \ added_ids
               /\ added \cap removed = {}
               /\ added \cap affected = {}
               /\ removed \cap affected = {}
               /\ Len(result[i].affected_sorries) = Cardinality(affected)
               /\ Len(result[i].added_sorries) = Cardinality(added)
               /\ Len(result[i].removed_sorries) = Cardinality(removed)

\* C2: a declaration whose marker is removed at old line L1 and added again,
\* under the same name in the same .lean file, at new line L2 is returned as
\* exactly one affected entry with old_line L1 and new_line L2, and as no
\* added or removed entry.  Scenario C moves lemma foo from line 10 to line
\* 25 across two hunks; HunkDiff moves theorem foo from line 7 to line 10
\* within one hunk.
MovedFoo(d, keyword, old_line, new_line, i) ==
    (diff[i] = d /\ keyword \in Range(sorry_keywords[i]) /\ Ended(i)) =>
        /\ result[i].returned
        /\ Cardinality({k \in DOMAIN result[i].affected_sorries :
                           result[i].affected_sorries[k].id = "foo@A.lean"}) = 1
        /\ \E e \in Range(result[i].affected_sorries) :
              /\ e.id = "foo@A.lean"
              /\ e.old_line = old_line
              /\ e.new_line = new_line
        /\ \A text \in Range(result[i].added_sorries)
                          \cup Range(result[i].removed_sorries) :
              text # Descriptor([header |-> keyword \o " foo : P", file |-> "A.lean"])

C2_PureMove ==
    \A i \in Clients :
        /\ MovedFoo(ScenarioC, "lemma", 10, 25, i)
        /\ MovedFoo(HunkDiff, "theorem", 7, 10, i)

\* C3: analyze returns totals that count the added and the removed lines of
\* every file section of the diff, the sections of files that are not .lean
\* files included.
C3_StatsAllFiles ==
    \A i \in Clients : (diff[i] \in Scenarios /\ Ended(i)) =>
        /\ result[i].returned
        /\ result[i].stats.lines_added = Cardinality(ChangedLines(diff[i], "+"))
        /\ result[i].stats.lines_removed = Cardinality(ChangedLines(diff[i], "-"))

\* C4: for a diff whose sections are all of .lean files, lines_added is the
\* number of hunk lines that start with "+" and lines_removed the number that
\* start with "-", the lines whose own text begins with "++" or "--" included;
\* only the "+++" and "---" lines of the file headers are left out.
C4_LeanLineCount ==
    \A i \in Clients :
        ( /\ diff[i] \in Scenarios
          /\ \A k \in 1..Len(diff[i]) : InLeanSection(diff[i], k)
          /\ Ended(i) ) =>
            /\ result[i].returned
            /\ self[i].lines_added = Cardinality(ChangedLines(diff[i], "+"))
            /\ self[i].lines_removed = Cardinality(ChangedLines(diff[i], "-"))

\* C5: for any diff text and any keyword list, constructing a DiffAnalyzer
\* and calling analyze never raises: the client always gets its result.
C5_NeverRaises ==
    \A i \in Clients :
        /\ exc[i] = NoException
        /\ pc[i] # "raised"

\* C6: the added line "+  theorem foo : P := by sorry -- sorry still needed"
\* of a .lean file, analysed with theorem among the keywords, is analysed and
\* registers nothing: foo's stable ID is no key of _raw_added and nothing is
\* reported.
C6_CommentSuppressed ==
    \A i \in Clients :
        (diff[i] = CommentDiff /\ "theorem" \in Range(sorry_keywords[i]) /\ Ended(i)) =>
            /\ result[i].returned
            /\ "foo@A.lean" \notin DOMAIN self[i]._raw_added
            /\ result[i].added_sorries = <<>>
            /\ result[i].removed_sorries = <<>>
            /\ result[i].affected_sorries = <<>>

\* C7: a file section with a header and no hunk (Scenario B, a pure rename)
\* adds its path to files_changed and changes nothing else: the line totals
\* and both maps are those of an empty diff.
C7_NoHunkSection ==
    \A i \in Clients : (diff[i] = ScenarioB /\ Ended(i)) =>
        /\ result[i].returned
        /\ self[i].files_changed = {"New.lean"}
        /\ result[i].stats =
              [files_changed |-> 1, lines_added |-> 0, lines_removed |-> 0]
        /\ self[i]._raw_added = EmptyDict
        /\ self[i]._raw_removed = EmptyDict

\* C8: when a section's header names different old and new paths and a
\* declaration's marker is removed on the old side and added on the new side,
\* the removed occurrence is keyed on the old path and the added one on the
\* new path: one removed entry, one added entry, no affected entry.
C8_RenameIsRemovePlusAdd ==
    \A i \in Clients :
        (diff[i] = RenameDiff /\ "theorem" \in Range(sorry_keywords[i]) /\ Ended(i)) =>
            /\ result[i].returned
            /\ DOMAIN self[i]._raw_removed = {"foo@Old.lean"}
            /\ DOMAIN self[i]._raw_added = {"foo@New.lean"}
            /\ result[i].removed_sorries =
                  <<Descriptor([header |-> "theorem foo : P", file |-> "Old.lean"])>>
            /\ result[i].added_sorries =
                  <<Descriptor([header |-> "theorem foo : P", file |-> "New.lean"])>>
            /\ result[i].affected_sorries = <<>>

\* C9: two analyzers whose processing interleaves each yield their stats and
\* marker lists, and each yields what its own inputs alone determine: whatever
\* the other client has done so far, a client that is through has its result,
\* and two clients with the same inputs have the same result.
C9_IndependentRuns ==
    \A i \in Clients : (pc[i] # "absent" /\ Ended(i)) =>
        /\ result[i].returned
        /\ \A j \in Clients :
              ( /\ Ended(j)
                /\ diff[j] = diff[i]
                /\ sorry_keywords[j] = sorry_keywords[i] ) =>
                    result[j] = result[i]

\* C10: the line stored with a marker occurrence is its line in the file: for
\* an added occurrence the hunk's new start plus the context and added lines
\* before it in the hunk, for a removed one the hunk's old start plus the
\* context and removed lines before it.  In HunkDiff (@@ -5,3 +7,4 @@) the
\* added marker of foo follows one context and two added lines, the removed
\* one follows one context and one removed line.
C10_TrueLineNumbers ==
    \A i \in Clients :
        (diff[i] = HunkDiff /\ "theorem" \in Range(sorry_keywords[i]) /\ Ended(i)) =>
            /\ result[i].returned
            /\ "foo@A.lean" \in DOMAIN self[i]._raw_added
            /\ self[i]._raw_added["foo@A.lean"].line = 7 + 1 + 2
            /\ "foo@A.lean" \in DOMAIN self[i]._raw_removed
            /\ self[i]._raw_removed["foo@A.lean"].line = 5 + 1 + 1

\* the three lists analyze returned to client i hold nothing
NothingReported(i) ==
    /\ result[i].added_sorries = <<>>
    /\ result[i].removed_sorries = <<>>
    /\ result[i].affected_sorries = <<>>

\* C11: a declaration line from which no name can be extracted empties the
\* current declaration name, so its marker and the markers after it are not
\* recorded under the name of an earlier declaration.  In NoNameDiff the line
\* "+instance : Inhabited Nat := sorry" follows theorem foo in one hunk: the
\* scan is made, ends with no declaration name and records nothing.
C11_NoNameClearsContext ==
    \A i \in Clients :
        ( /\ diff[i] = NoNameDiff
          /\ {"theorem", "instance"} \subseteq Range(sorry_keywords[i])
          /\ Ended(i) ) =>
            /\ result[i].returned
            /\ self[i]._current_decl_name = ""
            /\ self[i]._raw_added = EmptyDict
            /\ self[i]._raw_removed = EmptyDict
            /\ NothingReported(i)

\* C12: every file header and every hunk header empties the declaration
\* header and name, so a marker line that comes in a hunk before any
\* declaration line of that hunk records nothing.  In BoundaryDiff theorem foo
\* is opened in the first hunk and "+  sorry" is the only line of the second:
\* the scan is made, records nothing and ends with an empty context.
C12_ContextStopsAtBoundary ==
    \A i \in Clients :
        (diff[i] = BoundaryDiff /\ "theorem" \in Range(sorry_keywords[i]) /\ Ended(i)) =>
            /\ result[i].returned
            /\ self[i]._current_decl_header = ""
            /\ self[i]._current_decl_name = ""
            /\ self[i]._raw_added = EmptyDict
            /\ self[i]._raw_removed = EmptyDict
            /\ NothingReported(i)

\* C13: a line on which "--" comes before the first "sorry" records nothing
\* and leaves both maps as they were; a changed line with no "--" before its
\* marker and a declaration name in effect records one occurrence.  In
\* TwoMarkersDiff the first added line has its marker after "--" and the
\* second has none: the scan is made and records bar at new line 2 only.
C13_CommentBeforeMarker ==
    \A i \in Clients :
        (diff[i] = TwoMarkersDiff /\ "theorem" \in Range(sorry_keywords[i]) /\ Ended(i)) =>
            /\ result[i].returned
            /\ DOMAIN self[i]._raw_added = {"bar@A.lean"}
            /\ self[i]._raw_added["bar@A.lean"].line = 2
            /\ self[i]._raw_removed = EmptyDict
            /\ result[i].added_sorries =
                  <<Descriptor([header |-> "theorem bar : P", file |-> "A.lean"])>>

\* C14: a context line changes no entry of _raw_added or _raw_removed, even
\* with a marker on it and a declaration name in effect; it advances both line
\* counters and may update the declaration context.  In ContextDiff the one
\* line of the hunk at old and new line 3 is the context line
\* " theorem foo : P := sorry": the scan is made, ends with both counters at 4
\* and foo as the current name, and both maps are empty.
C14_ContextLineRecordsNothing ==
    \A i \in Clients :
        (diff[i] = ContextDiff /\ "theorem" \in Range(sorry_keywords[i]) /\ Ended(i)) =>
            /\ result[i].returned
            /\ self[i]._raw_added = EmptyDict
            /\ self[i]._raw_removed = EmptyDict
            /\ self[i]._old_line_num = 3 + 1
            /\ self[i]._new_line_num = 3 + 1
            /\ self[i]._current_decl_name = "foo"
            /\ self[i].lines_added = 0
            /\ self[i].lines_removed = 0

\* C15: when one stable ID is recorded several times on one side, the entry
\* kept for that side is that of the last such line of the diff, and recording
\* on one side leaves the other side's entry as it was.  In LastWinsDiff foo's
\* marker is removed at old line 1 and added at new lines 1 and 3: the scan is
\* made, the added entry is that of line 3 and the removed entry that of line 1.
C15_LastWriteWins ==
    \A i \in Clients :
        (diff[i] = LastWinsDiff /\ "theorem" \in Range(sorry_keywords[i]) /\ Ended(i)) =>
            /\ result[i].returned
            /\ DOMAIN self[i]._raw_added = {"foo@A.lean"}
            /\ self[i]._raw_added["foo@A.lean"].line = 3
            /\ self[i]._raw_added["foo@A.lean"].header = "theorem foo : Q"
            /\ DOMAIN self[i]._raw_removed = {"foo@A.lean"}
            /\ self[i]._raw_removed["foo@A.lean"].line = 1
            /\ self[i]._raw_removed["foo@A.lean"].header = "theorem foo : P"

\* C16: a line opens a declaration exactly when its text after the one prefix
\* character and the blanks that follow it begins with a keyword and a blank;
\* a line whose text after the prefix character begins with another "-" or
\* "+" opens none and leaves the declaration context as it was.  In
\* CommentedDeclDiff the added line "-- theorem bar : Q" stands between
\* theorem foo and its marker: the scan is made, the context stays foo's and
\* the marker is recorded under foo.
C16_OnePrefixCharacter ==
    \A i \in Clients :
        ( /\ diff[i] = CommentedDeclDiff
          /\ "theorem" \in Range(sorry_keywords[i])
          /\ Ended(i) ) =>
            /\ result[i].returned
            /\ self[i]._current_decl_name = "foo"
            /\ self[i]._current_decl_header = "theorem foo : P := by"
            /\ DOMAIN self[i]._raw_added = {"foo@A.lean"}
            /\ self[i]._raw_added["foo@A.lean"].line = 3
            /\ result[i].added_sorries =
                  <<Descriptor([header |-> "theorem foo : P", file |-> "A.lean"])>>

\* len(diff) of the text whose splitlines() is d: its lines and the line
\* ends between them
RECURSIVE DiffLength(_)
DiffLength(d) ==
    IF d = <<>> THEN 0
    ELSE Len(Head(d)) + (IF Len(d) > 1 THEN 1 ELSE 0) + DiffLength(Tail(d))

\* C17: main runs the analyzer on a text of at most MAX_DIFF_TOKENS
\* characters, the text it goes on to split and summarise: the statements of
\* lines 325-326 yield the statistics and the lists of a diff no longer than
\* that.
C17_TruncatedBeforeAnalysis ==
    \A i \in Clients : Ended(i) =>
        /\ result[i].returned
        /\ DiffLength(diff[i]) <= MAX_DIFF_TOKENS

\* the entries a scan has stored, of both sides
RawEntries(i) ==
    {<<sid, self[i]._raw_added[sid]>> : sid \in DOMAIN self[i]._raw_added}
        \cup {<<sid, self[i]._raw_removed[sid]>> : sid \in DOMAIN self[i]._raw_removed}

\* C19: the scan is made, and every entry of _raw_added and _raw_removed is
\* stored under its own id, which is name@file with a name that is not empty
\* and a file that ends in ".lean" and is the new path of a file header of the
\* diff; the lines of a section of a file that is not a .lean file change
\* neither the maps, the line counters nor the declaration context.  In
\* OtherFileLastDiff the section of R.md comes last, after a hunk of A.lean
\* that leaves both counters at 4.
C19_EntriesWellFormed ==
    \A i \in Clients : Ended(i) =>
        /\ result[i].returned
        /\ \A pair \in RawEntries(i) :
              LET sid == pair[1]
                  entry == pair[2]
              IN  /\ entry.id = sid
                  /\ entry.id = entry.name \o "@" \o entry.file
                  /\ entry.name # ""
                  /\ EndsWith(entry.file, ".lean")
                  /\ \E k \in 1..Len(diff[i]) :
                        /\ IsFileHeader(diff[i][k])
                        /\ EndsWith(diff[i][k], " b/" \o entry.file)
        /\ diff[i] = OtherFileLastDiff =>
              /\ self[i]._raw_added = EmptyDict
              /\ self[i]._raw_removed = EmptyDict
              /\ self[i]._old_line_num = 3 + 1
              /\ self[i]._new_line_num = 3 + 1
              /\ self[i]._current_decl_name = ""
              /\ self[i].lines_added = 0

\* C20: a second analyze of the same diff on the same analyzer returns what
\* the first returned: the same stats and the same three lists, nothing
\* carried over from the first call.
C20_Repeatable ==
    \A i \in Clients : (pc[i] # "absent" /\ Ended(i)) =>
        /\ result[i].returned
        /\ again[i].returned
        /\ again[i] = result[i]

(***************************************************************************)
(* The summary comment (lines 211-270 and 290-304).  format_summary builds *)
(* the body of the comment around an identifier that holds the time of the *)
(* call; post_github_comment looks through the pull request's comments for *)
(* the first whose body holds an identifier of any time, edits it if there  *)
(* is one and creates a comment if there is none.  Neither function uses   *)
(* a DiffAnalyzer.  The calls to the GitHub API are taken to succeed.      *)
(***************************************************************************)
\* line 10
COMMENT_IDENTIFIER == "<!-- gemini-pr-summary-{{timestamp}} -->"

\* os.environ['GITHUB_REPOSITORY'] of line 268
GITHUB_REPOSITORY == "owner/repo"

\* s.find(sub) from position start on, counted from 1; 0 when there is none
Find(s, sub, start) ==
    LET hits == {p \in start..(Len(s) - Len(sub) + 1) :
                    SubSeq(s, p, p + Len(sub) - 1) = sub}
    IN  IF hits = {} THEN 0 ELSE CHOOSE p \in hits : \A q \in hits : p <= q

\* sub in s
Contains(s, sub) == Find(s, sub, 1) # 0

\* s.replace(old, new): every occurrence, from the left
RECURSIVE StrReplace(_, _, _)
StrReplace(s, old, new) ==
    LET p == Find(s, old, 1)
    IN  IF p = 0 THEN s
        ELSE SubSeq(s, 1, p - 1) \o new
                 \o StrReplace(SubSeq(s, p + Len(old), Len(s)), old, new)

\* re.compile(pattern).search(text) for a pattern of literal characters with
\* at most one ".*?" among them: the text before ".*?", then any characters
\* but a line end, then the text after it
RegexSearch(pattern, text) ==
    LET w == Find(pattern, ".*?", 1)
        before == SubSeq(pattern, 1, w - 1)
        after == SubSeq(pattern, w + 3, Len(pattern))
    IN  IF w = 0 THEN Contains(text, pattern)
        ELSE \E p \in 1..(Len(text) - Len(before) + 1) :
                /\ SubSeq(text, p, p + Len(before) - 1) = before
                /\ \E q \in (p + Len(before))..(Len(text) - Len(after) + 1) :
                      /\ SubSeq(text, q, q + Len(after) - 1) = after
                      /\ \A m \in (p + Len(before))..(q - 1) :
                            CharAt(text, m) # "\n"

\* the clock counts the seconds since 2025-01-01 00:00:00 UTC, below 60
TwoDigits(n) == IF n < 10 THEN "0" \o ToString(n) ELSE ToString(n)

\* line 214: strftime("%Y-%m-%d-%H-%M-%S")
TimestampStr(t) == "2025-01-01-00-00-" \o TwoDigits(t)

\* line 267: strftime("%Y-%m-%d %H:%M UTC")
LastUpdated(t) == "2025-01-01 00:00 UTC"

\* lines 233-234, 239-240, 263-264: one bullet per item
RECURSIVE Bullets(_)
Bullets(items) ==
    IF items = <<>> THEN ""
    ELSE "*   " \o Head(items) \o "\n" \o Bullets(Tail(items))

\* lines 247-252: the link to the first issue whose body names the stable ID
RECURSIVE IssueLink(_, _)
IssueLink(sid, issues) ==
    IF issues = <<>> THEN ""
    ELSE IF /\ Head(issues).body # ""
            /\ Contains(Head(issues).body, "<!-- sorry-tracker-id: " \o sid \o " -->")
    THEN " (Issue #" \o ToString(Head(issues).number) \o ")"
    ELSE IssueLink(sid, Tail(issues))

\* lines 245-253
RECURSIVE AffectedBullets(_, _)
AffectedBullets(affected, issues) ==
    IF affected = <<>> THEN ""
    ELSE LET sorry == Head(affected)
         IN  "*   " \o Backquote \o sorry.context \o Backquote \o " in "
                 \o Backquote \o sorry.file \o Backquote
                 \o " moved from L" \o ToString(sorry.old_line)
                 \o " to L" \o ToString(sorry.new_line)
                 \o IssueLink(sorry.id, issues) \o "\n"
                 \o AffectedBullets(Tail(affected), issues)

\* lines 231-254: one folded list for a side that is not empty
SorrySection(title, count, tail, bullets) ==
    IF count = 0 THEN ""
    ELSE "<details><summary> **" \o title \o ":** " \o ToString(count) \o " "
             \o Backquote \o "sorry" \o Backquote \o "(s)" \o tail
             \o "</summary>\n\n" \o bullets \o "</details>\n"

\* format_summary (lines 211-270) called at time t; the pictographs of its
\* literals are left out, and Backquote stands for its backquotes
format_summary(ai_summary, stats, added_sorries, removed_sorries, affected_sorries, truncated, issues, per_file_summaries, t) ==
    LET unique_comment_identifier ==
            StrReplace(COMMENT_IDENTIFIER, "{{timestamp}}", TimestampStr(t))
    IN  "###  Gemini PR Summary\n\n" \o unique_comment_identifier \o "\n\n"
        \o ai_summary \o "\n"
        \o (IF truncated
            THEN "> *Note: The diff was too large to be fully analyzed and was truncated.*\\n"
            ELSE "")
        \o "\n---\n\n"
        \o "**Analysis of Changes**\n\n"
        \o "| Metric | Count |\n| --- | --- |\n"
        \o "|  **Files Changed** | " \o ToString(stats.files_changed) \o " |\n"
        \o "|  **Lines Added** | " \o ToString(stats.lines_added) \o " |\n"
        \o "|  **Lines Removed** | " \o ToString(stats.lines_removed) \o " |\n"
        \o "\n---\n\n"
        \o "**" \o Backquote \o "sorry" \o Backquote \o " Tracking**\n\n"
        \o SorrySection("Removed", Len(removed_sorries), "", Bullets(removed_sorries))
        \o SorrySection("Added", Len(added_sorries), "", Bullets(added_sorries))
        \o SorrySection("Affected", Len(affected_sorries), " (line number changed)",
                        AffectedBullets(affected_sorries, issues))
        \o (IF added_sorries = <<>> /\ removed_sorries = <<>> /\ affected_sorries = <<>>
            THEN "*   No " \o Backquote \o "sorry" \o Backquote
                     \o "s were added, removed, or affected.\n"
            ELSE "")
        \o (IF per_file_summaries # <<>>
            THEN "\n---\n\n"
                     \o "<details><summary> **Per-File Summaries**</summary>\n\n"
                     \o Bullets(per_file_summaries) \o "</details>\n"
            ELSE "")
        \o "\n---\n\n*Last updated: " \o LastUpdated(t)
        \o ". See the [main CI run](https://github.com/" \o GITHUB_REPOSITORY
        \o "/actions) for build status.*"

\* line 293: the pattern post_github_comment compiles
comment_regex_unreplaced == COMMENT_IDENTIFIER

comment_regex == StrReplace(COMMENT_IDENTIFIER, "{{timestamp}}", ".*?")

(***************************************************************************)
(* The inputs of the summary comment.                                      *)
(***************************************************************************)
MaxClock == 2

MaxCalls == 2

MaxComments == 2

\* an analysis that found nothing
EmptyReport ==
    [ stats |-> [files_changed |-> 0, lines_added |-> 0, lines_removed |-> 0],
      added_sorries |-> <<>>,
      removed_sorries |-> <<>>,
      affected_sorries |-> <<>>,
      issues |-> <<>>,
      per_file_summaries |-> <<>> ]

\* an analysis with an entry in each list and an issue that tracks foo
FullReport ==
    [ stats |-> [files_changed |-> 2, lines_added |-> 3, lines_removed |-> 2],
      added_sorries |->
          <<Descriptor([header |-> "theorem bar : True", file |-> "Foo.lean"])>>,
      removed_sorries |->
          <<Descriptor([header |-> "def old : Nat", file |-> "Foo.lean"])>>,
      affected_sorries |->
          <<[id |-> "foo@A.lean", file |-> "A.lean", context |-> "lemma foo : P",
             old_line |-> 10, new_line |-> 25]>>,
      issues |->
          <<[number |-> 4, body |-> ""],
            [number |-> 7, body |-> "Tracking.\n<!-- sorry-tracker-id: foo@A.lean -->"]>>,
      per_file_summaries |-> <<"**A.lean**: Moves foo.", "**Foo.lean**: Adds bar.">> ]

\* what one run of main passes to format_summary: the text of the model, the
\* analysis and whether the diff was truncated
SummaryInputs ==
    { [ai_summary |-> "Moves lemma foo.", report |-> FullReport, truncated |-> FALSE],
      [ai_summary |-> "Moves lemma foo.", report |-> FullReport, truncated |-> TRUE],
      [ai_summary |-> "Error summarizing: timeout", report |-> EmptyReport,
       truncated |-> FALSE] }

\* the bodies of the comments other people write: none holds an identifier,
\* one holds its opening words and one has a line end inside it
OtherBodies ==
    {"LGTM", "<!-- gemini-pr-summary-", "<!-- gemini-pr-summary-2025\n -->"}

\* the pull request of the summary comment has no client of the analyzer
InitComment == InitOf({}, KeywordLists, Diffs)

(***************************************************************************)
(* post_github_comment (lines 290-304) on the pull request.                *)
(***************************************************************************)
post_github_comment(summary) ==
    LET matching == {k \in DOMAIN comments :
                        RegexSearch(comment_regex, comments[k].body)}
        existing_comment ==
            IF matching = {} THEN 0
            ELSE CHOOSE k \in matching : \A m \in matching : k <= m
    IN  /\ Len(calls) < MaxCalls
        /\ IF existing_comment # 0
           THEN /\ comments' = [comments EXCEPT ![existing_comment].body = summary]
                /\ calls' = Append(calls, [action |-> "edit",
                                           id |-> comments[existing_comment].id,
                                           at |-> now])
           ELSE /\ comments' = Append(comments, [id |-> Len(comments) + 1,
                                                 body |-> summary])
                /\ calls' = Append(calls, [action |-> "create",
                                           id |-> Len(comments) + 1,
                                           at |-> now])
        /\ UNCHANGED now
        /\ UNCHANGED analyzerVars

\* main, lines 362-365: format the summary, then post it
PostSummary ==
    \E run \in SummaryInputs :
        post_github_comment(
            format_summary(run.ai_summary, run.report.stats, run.report.added_sorries,
                           run.report.removed_sorries, run.report.affected_sorries,
                           run.truncated, run.report.issues,
                           run.report.per_file_summaries, now))

\* somebody else comments on the pull request
OtherComment ==
    /\ Len(comments) < MaxComments
    /\ \E body \in OtherBodies :
          comments' = Append(comments, [id |-> Len(comments) + 1, body |-> body])
    /\ UNCHANGED <<calls, now>>
    /\ UNCHANGED analyzerVars

\* time passes between two calls
Tick ==
    /\ now < MaxClock
    /\ now' = now + 1
    /\ UNCHANGED <<comments, calls>>
    /\ UNCHANGED analyzerVars

NextComment == PostSummary \/ OtherComment \/ Tick

SpecComment == InitComment /\ [][NextComment]_vars

\* a body holds the identifier of line 215 for a time up to now
CarriesIdentifier(body) ==
    \E t \in 0..now :
        Contains(body, "<!-- gemini-pr-summary-" \o TimestampStr(t) \o " -->")

\* C18: on a pull request that starts with no comment carrying the summary
\* identifier, after any number of post_github_comment calls with bodies of
\* format_summary, made one after another, exactly one comment carries the
\* identifier: the first call created it and every later call edited that
\* comment, whatever the timestamps of the bodies.
C18_FindAndUpdate ==
    LET carrying == {k \in DOMAIN comments : CarriesIdentifier(comments[k].body)}
    IN  /\ calls = <<>> => carrying = {}
        /\ calls # <<>> =>
              /\ Cardinality(carrying) = 1
              /\ \A k \in carrying : comments[k].id = calls[1].id
              /\ calls[1].action = "create"
              /\ \A c \in 2..Len(calls) :
                    /\ calls[c].action = "edit"
                    /\ calls[c].id = calls[1].id

\* C18: a second call, at a later time than the first, has edited the comment
\* that the first call created after somebody else's comment
C18_Witness ==
    /\ Len(calls) >= 2
    /\ calls[1].action = "create"
    /\ calls[2].action = "edit"
    /\ calls[2].at > calls[1].at
    /\ calls[1].id > 1
    /\ CarriesIdentifier(comments[calls[1].id].body)
    /\ Contains(comments[calls[1].id].body, TimestampStr(calls[2].at))

====
